---- MODULE Spec2Model ----
(***************************************************************************)
(* Model of src/EDA_spotify.py: the module-level script reads the CSV,     *)
(* renames the columns (padronizar_colunas), describes the table           *)
(* (metadados), cleans it (limpar_dados) and describes it again.           *)
(*                                                                         *)
(* A table is a sequence of columns [name, cells]; a cell is missing       *)
(* (NaN), a number, a text or a boolean.  Numbers are held as an integer   *)
(* count of halves, so that the median of an even count of integers is     *)
(* exact; quartile fences are compared after scaling by 8.                 *)
(***************************************************************************)
EXTENDS Integers, Sequences, FiniteSets, TLC

VARIABLES csv, df, pc, err, meta, passed

vars == <<csv, df, pc, err, meta, passed>>

(* ----------------------------- bounds ---------------------------------- *)

\* largest number of data rows of the CSV file
MaxRows == 4

\* the texts a CSV field may hold: empty, a number, a count with a thousands
\* separator, a word
FieldSet ==
  { <<>>, <<"0">>, <<"2">>, <<"1", ",", "0">>, <<"b">> }

(* ------------------------------ cells ---------------------------------- *)

NaN == [k |-> "nan", v |-> 0, s |-> <<>>]

\* the number n (n in units; stored in halves)
Num(n) == [k |-> "num", v |-> 2 * n, s |-> <<>>]

\* the number h/2
Half(h) == [k |-> "num", v |-> h, s |-> <<>>]

Str(t) == [k |-> "str", v |-> 0, s |-> t]

Bool(b) == [k |-> "bool", v |-> IF b THEN 1 ELSE 0, s |-> <<>>]

isnull(c) == c.k = "nan"

(* --------------------------- text and parsing -------------------------- *)

Digit == {"0", "1", "2", "3", "4", "5", "6", "7", "8", "9"}

DigitVal(c) ==
  CASE c = "0" -> 0 [] c = "1" -> 1 [] c = "2" -> 2 [] c = "3" -> 3
    [] c = "4" -> 4 [] c = "5" -> 5 [] c = "6" -> 6 [] c = "7" -> 7
    [] c = "8" -> 8 [] c = "9" -> 9

RECURSIVE DecimalValue(_)
DecimalValue(t) ==
  IF Len(t) = 0 THEN 0
  ELSE 10 * DecimalValue(SubSeq(t, 1, Len(t) - 1)) + DigitVal(t[Len(t)])

\* a text is a number when it is a non-empty run of decimal digits
IsNumeric(t) == Len(t) > 0 /\ \A i \in 1..Len(t) : t[i] \in Digit

\* the text left as it is
str_replace_none(t) == t

\* Series.str.replace(',', '') on one text
str_replace(t) == SelectSeq(t, LAMBDA c : c # ",")

(* ------------------------------ tables --------------------------------- *)

HasCol(d, n) == \E i \in 1..Len(d) : d[i].name = n

ColIndex(d, n) == CHOOSE i \in 1..Len(d) : d[i].name = n

\* df[n]
Col(d, n) == d[ColIndex(d, n)].cells

\* df[n] = cells : replaces the column in place, or appends a new one
SetCol(d, n, cells) ==
  IF HasCol(d, n)
  THEN [d EXCEPT ![ColIndex(d, n)] = [name |-> n, cells |-> cells]]
  ELSE Append(d, [name |-> n, cells |-> cells])

Columns(d) == {d[i].name : i \in 1..Len(d)}

NumRows(d) == IF Len(d) = 0 THEN 0 ELSE Len(d[1].cells)

NoError == "none"

\* the outcome of a statement: the table it leaves, or the exception raised
Ok(d) == [ok |-> TRUE, err |-> NoError, df |-> d]

Raise(e) == [ok |-> FALSE, err |-> e, df |-> << >>]


(* ----------------------------- the CSV file ---------------------------- *)

\* header of 'Spotify Most Streamed Songs.csv': the names the script renames
\* plus the image-URL column it drops
RawHeader ==
  << "track_name", "artist(s)_name", "artist_count", "released_year",
     "released_month", "released_day", "in_spotify_playlists",
     "in_spotify_charts", "streams", "in_apple_playlists", "in_apple_charts",
     "in_deezer_playlists", "in_deezer_charts", "in_shazam_charts", "bpm",
     "key", "mode", "danceability_%", "valence_%", "energy_%",
     "acousticness_%", "instrumentalness_%", "liveness_%", "speechiness_%",
     "cover_url" >>

DigitText(i) ==
  CASE i = 0 -> "0" [] i = 1 -> "1" [] i = 2 -> "2" [] i = 3 -> "3"
    [] i = 4 -> "4" [] i = 5 -> "5" [] i = 6 -> "6" [] i = 7 -> "7"
    [] i = 8 -> "8" [] i = 9 -> "9"

\* the field of row r of column c in a well-formed file: track_name numbers
\* the rows, streams carries a thousands separator, key and cover_url are text
DefaultField(c, r) ==
  CASE c = "track_name" -> << DigitText(r) >>
    [] c = "streams" -> << "1", ",", "0" >>
    [] c \in {"key", "cover_url", "mode", "artist(s)_name"} -> << "b" >>
    [] c \in {"in_spotify_playlists", "in_apple_playlists",
              "in_deezer_playlists"} -> << "2" >>
    [] OTHER -> << "1" >>

BaseColumn(c, n) == [name |-> c, fields |-> [r \in 1..n |-> DefaultField(c, r)]]

BaseFile(n) == [i \in 1..Len(RawHeader) |-> BaseColumn(RawHeader[i], n)]

\* the columns whose content Init varies
FocusColumns ==
  { "streams", "key", "in_spotify_playlists", "in_apple_playlists",
    "in_deezer_playlists", "danceability_%", "valence_%", "energy_%",
    "acousticness_%", "instrumentalness_%", "liveness_%", "speechiness_%" }

\* the texts tried in every row of column c: all of them in streams; empty,
\* numbers and a separated count in a playlist column; empty and numbers in a
\* percentage column; empty, a number and a word in key
Fields(c) ==
  IF c = "streams" THEN FieldSet
  ELSE IF c \in {"in_spotify_playlists", "in_apple_playlists",
                 "in_deezer_playlists"} THEN FieldSet \ { <<"b">> }
  ELSE IF c = "key" THEN FieldSet \ { <<"2">>, <<"1", ",", "0">> }
  ELSE FieldSet \ { <<"b">>, <<"1", ",", "0">> }

FieldColumns(c, n) == [1..n -> Fields(c)]

\* the texts that are not numbers, tried in one row of a column
Words == { <<"b">>, <<"1", ",", "0">> }

\* the file with column c removed from every line
WithoutColumn(f, c) == SelectSeq(f, LAMBDA col : col.name # c)

\* the file with the field of row r of column c replaced
WithField(f, c, r, t) ==
  [i \in 1..Len(f) |->
     IF f[i].name = c THEN [name |-> c, fields |-> [f[i].fields EXCEPT ![r] = t]]
     ELSE f[i]]

\* the file with the fields of column c replaced
WithFields(f, c, fs) ==
  [i \in 1..Len(f) |-> IF f[i].name = c THEN [name |-> c, fields |-> fs]
                                         ELSE f[i]]

(* ------------------------------ read_csv ------------------------------- *)

\* type inference of one column: empty fields are missing; the column is
\* numeric when every other field is a number, and text otherwise
read_typed(fs, numeric) ==
  [r \in 1..Len(fs) |->
     IF Len(fs[r]) = 0 THEN NaN
     ELSE IF numeric THEN Num(DecimalValue(fs[r]))
     ELSE Str(fs[r])]

read_column(fs) ==
  read_typed(fs, \A r \in 1..Len(fs) : Len(fs[r]) = 0 \/ IsNumeric(fs[r]))

read_csv(f) ==
  [i \in 1..Len(f) |-> [name |-> f[i].name, cells |-> read_column(f[i].fields)]]

\* object dtype: a column that holds text, or a column of no rows
IsObject(cells) == Len(cells) = 0 \/ \E r \in 1..Len(cells) : cells[r].k = "str"

(* -------------------------- padronizar_colunas ------------------------- *)

rename_dict ==
  << <<"artist(s)_name", "artistas">>, <<"track_name", "musica">>,
     <<"artist_count", "qt_artistas">>, <<"released_year", "ano_lancamento">>,
     <<"released_month", "mes_lancamento">>,
     <<"released_day", "dia_lancamento">>,
     <<"in_spotify_playlists", "playlists_spotify">>,
     <<"in_spotify_charts", "charts_spotify">>,
     <<"in_apple_playlists", "playlists_apple">>,
     <<"in_apple_charts", "charts_apple">>,
     <<"in_deezer_playlists", "playlists_deezer">>,
     <<"in_deezer_charts", "charts_deezer">>,
     <<"in_shazam_charts", "charts_shazam">>, <<"streams", "streams">>,
     <<"bpm", "bpm">>, <<"key", "tom_musical">>, <<"mode", "modo_musical">>,
     <<"danceability_%", "danceability">>, <<"valence_%", "valence">>,
     <<"energy_%", "energy">>, <<"acousticness_%", "acousticness">>,
     <<"instrumentalness_%", "instrumentalness">>,
     <<"liveness_%", "liveness">>, <<"speechiness_%", "speechiness">> >>

RenameKeys == {rename_dict[i][1] : i \in 1..Len(rename_dict)}

\* the lookup without its entry for key
rename_nokey(n) ==
  IF n \in RenameKeys \ {"key"}
  THEN rename_dict[CHOOSE i \in 1..Len(rename_dict) : rename_dict[i][1] = n][2]
  ELSE n

\* DataFrame.rename(columns=rename_dict) on one name
rename(n) ==
  IF n \in RenameKeys
  THEN rename_dict[CHOOSE i \in 1..Len(rename_dict) : rename_dict[i][1] = n][2]
  ELSE n

padronizar_colunas(d) ==
  [i \in 1..Len(d) |-> [name |-> rename(d[i].name), cells |-> d[i].cells]]

(* ----------------------------- statistics ------------------------------ *)

\* the values (in halves) of the cells that are numbers, in row order
RECURSIVE dropna(_)
dropna(cells) ==
  IF Len(cells) = 0 THEN << >>
  ELSE IF cells[1].k = "num" THEN << cells[1].v >> \o dropna(Tail(cells))
  ELSE dropna(Tail(cells))

RECURSIVE Insert(_, _)
Insert(x, sorted) ==
  IF Len(sorted) = 0 THEN << x >>
  ELSE IF x <= sorted[1] THEN << x >> \o sorted
  ELSE << sorted[1] >> \o Insert(x, Tail(sorted))

RECURSIVE Sort(_)
Sort(xs) == IF Len(xs) = 0 THEN << >> ELSE Insert(xs[1], Sort(Tail(xs)))

\* Series.quantile(q/4), linear interpolation over the non-missing values:
\* position (n-1)*q/4 between the neighbouring order statistics.  x4 is
\* four times the quantile (in halves); nan when no value is present.
Interpolate(xs, i, r) ==
  IF r = 0 THEN 4 * xs[i + 1]
  ELSE 4 * xs[i + 1] + r * (xs[i + 2] - xs[i + 1])

QuantileSorted(xs, q) ==
  IF Len(xs) = 0 THEN [nan |-> TRUE, x4 |-> 0]
  ELSE [nan |-> FALSE,
        x4 |-> Interpolate(xs, ((Len(xs) - 1) * q) \div 4,
                               ((Len(xs) - 1) * q) % 4)]

quantile(cells, q) == QuantileSorted(Sort(dropna(cells)), q)

\* (s < Q1 - 1.5*IQR) | (s > Q3 + 1.5*IQR), every term scaled by 8;
\* a comparison with a missing value or a missing bound is False
\* the comparisons written with <= and >=
Compare_inclusive(cells, bounded, limite_inferior, limite_superior) ==
  [r \in 1..Len(cells) |->
     Bool(/\ cells[r].k = "num"
          /\ bounded
          /\ \/ 8 * cells[r].v <= limite_inferior
             \/ 8 * cells[r].v >= limite_superior)]

Compare(cells, bounded, limite_inferior, limite_superior) ==
  [r \in 1..Len(cells) |->
     Bool(/\ cells[r].k = "num"
          /\ bounded
          /\ \/ 8 * cells[r].v < limite_inferior
             \/ 8 * cells[r].v > limite_superior)]

Limits(cells, Q1, Q3) ==
  Compare(cells, ~Q1.nan, 2 * Q1.x4 - 3 * (Q3.x4 - Q1.x4),
                          2 * Q3.x4 + 3 * (Q3.x4 - Q1.x4))

is_outlier(cells) == Limits(cells, quantile(cells, 1), quantile(cells, 3))

\* Series.median(): middle order statistic, or the mean of the two middle
\* ones; NaN when no value is present
MedianSorted(xs, n) ==
  IF n = 0 THEN NaN
  ELSE IF n % 2 = 1 THEN Half(xs[(n + 1) \div 2])
  ELSE Half((xs[n \div 2] + xs[n \div 2 + 1]) \div 2)

median(cells) == MedianSorted(Sort(dropna(cells)), Len(dropna(cells)))

\* Series.fillna(value)
fillna(cells, value) ==
  [r \in 1..Len(cells) |-> IF isnull(cells[r]) THEN value ELSE cells[r]]

CharCode(c) ==
  IF c = "," THEN 44 ELSE IF c \in Digit THEN 48 + DigitVal(c) ELSE 98

TextLess(a, b) ==
  \/ \E i \in 1..Len(a) :
       /\ i <= Len(b)
       /\ \A j \in 1..(i - 1) : a[j] = b[j]
       /\ CharCode(a[i]) < CharCode(b[i])
  \/ /\ Len(a) < Len(b)
     /\ \A j \in 1..Len(a) : a[j] = b[j]

CellLess(a, b) ==
  IF a.k = "num" /\ b.k = "num" THEN a.v < b.v
  ELSE IF a.k = "str" /\ b.k = "str" THEN TextLess(a.s, b.s)
  ELSE a.k = "num"

Count(cells, c) == Cardinality({r \in 1..Len(cells) : cells[r] = c})

\* Series.mode(): the present values of the highest count, in sorted order
\* (as a set here; ModeFirst is its element 0)
MostFrequent(cells, present) ==
  {c \in present : \A o \in present : Count(cells, o) <= Count(cells, c)}

mode(cells) ==
  MostFrequent(cells, {cells[r] : r \in {r \in 1..Len(cells) : ~isnull(cells[r])}})

First(modes) == CHOOSE c \in modes : \A o \in modes : o = c \/ CellLess(c, o)

(* ----------------------------- limpar_dados ---------------------------- *)

metricas_musicais ==
  << "danceability", "energy", "valence", "acousticness",
     "instrumentalness", "liveness", "speechiness" >>

playlist_cols == << "playlists_spotify", "playlists_apple", "playlists_deezer" >>

\* f'is_outlier_{col}'
FlagName(col) ==
  CASE col = "streams" -> "is_outlier_streams"
    [] col = "danceability" -> "is_outlier_danceability"
    [] col = "energy" -> "is_outlier_energy"
    [] col = "valence" -> "is_outlier_valence"
    [] col = "acousticness" -> "is_outlier_acousticness"
    [] col = "instrumentalness" -> "is_outlier_instrumentalness"
    [] col = "liveness" -> "is_outlier_liveness"
    [] col = "speechiness" -> "is_outlier_speechiness"

\* the column looked up and left in the table
drop_keep(d, n) == IF ~HasCol(d, n) THEN Raise("KeyError") ELSE Ok(d)

\* df.drop(columns=['cover_url'])
drop(d, n) ==
  IF ~HasCol(d, n) THEN Raise("KeyError")
  ELSE Ok(SelectSeq(d, LAMBDA col : col.name # n))

\* Series.str.replace(',', ''): text loses its commas, any other cell is NaN
str_replace_column(cells) ==
  [r \in 1..Len(cells) |->
     IF cells[r].k = "str" THEN Str(str_replace(cells[r].s)) ELSE NaN]

\* pd.to_numeric(..., errors='coerce'): text that is not a number is NaN
to_numeric(cells) ==
  [r \in 1..Len(cells) |->
     IF cells[r].k = "str"
     THEN IF IsNumeric(cells[r].s) THEN Num(DecimalValue(cells[r].s)) ELSE NaN
     ELSE cells[r]]

\* Series.astype(float) raises on text that is not a number
CanFloat(cells) ==
  \A r \in 1..Len(cells) : cells[r].k = "str" => IsNumeric(cells[r].s)

astype_float(cells) ==
  [r \in 1..Len(cells) |->
     IF cells[r].k = "str" THEN Num(DecimalValue(cells[r].s)) ELSE cells[r]]

\* df[f'is_outlier_{col}'] = ... on the column as it is now
WithFlag(d, col) == SetCol(d, FlagName(col), is_outlier(Col(d, col)))

\* the cells of the rows whose streams (by) is a number
RECURSIVE FilterRows(_, _)
FilterRows(cells, by) ==
  IF Len(cells) = 0 THEN << >>
  ELSE (IF by[1].k = "num" THEN << cells[1] >> ELSE << >>)
         \o FilterRows(Tail(cells), Tail(by))

KeepParsed(d) ==
  [i \in 1..Len(d) |->
     [name |-> d[i].name, cells |-> FilterRows(d[i].cells, Col(d, "streams"))]]

\* streams to numbers, the rows that did not parse dropped
TratarStreams_dropna(d) ==
  IF ~HasCol(d, "streams") THEN Raise("KeyError")
  ELSE IF ~IsObject(Col(d, "streams")) THEN Raise("AttributeError")
  ELSE Ok(WithFlag(KeepParsed(SetCol(d, "streams",
                          to_numeric(str_replace_column(Col(d, "streams"))))),
                   "streams"))

\* lines 161-174: streams to numbers, then the IQR flag
TratarStreams(d) ==
  IF ~HasCol(d, "streams") THEN Raise("KeyError")
  ELSE IF ~IsObject(Col(d, "streams")) THEN Raise("AttributeError")
  ELSE Ok(WithFlag(SetCol(d, "streams",
                          to_numeric(str_replace_column(Col(d, "streams")))),
                   "streams"))

\* lines 181-190, one pass of the loop
TratarMetrica(d, metrica) ==
  IF ~HasCol(d, metrica) THEN Raise("KeyError")
  ELSE IF ~CanFloat(Col(d, metrica)) THEN Raise("ValueError")
  ELSE Ok(WithFlag(SetCol(d, metrica, astype_float(Col(d, metrica))), metrica))

\* lines 181-190: the loop from its i-th pass on; an exception ends it
RECURSIVE TratarMetricas(_, _)
TratarMetricas(r, i) ==
  IF ~r.ok \/ i > Len(metricas_musicais) THEN r
  ELSE TratarMetricas(TratarMetrica(r.df, metricas_musicais[i]), i + 1)

\* df[col] = df[col].fillna(df[col].median())
FillMedian(d, col) == SetCol(d, col, fillna(Col(d, col), median(Col(d, col))))

\* the column coerced and not filled
TratarPlaylist_nofill(d, col) ==
  IF ~HasCol(d, col) THEN Raise("KeyError")
  ELSE Ok(SetCol(d, col, to_numeric(Col(d, col))))

\* lines 195-197, one pass of the loop
TratarPlaylist(d, col) ==
  IF ~HasCol(d, col) THEN Raise("KeyError")
  ELSE Ok(FillMedian(SetCol(d, col, to_numeric(Col(d, col))), col))

\* lines 195-197: the loop from its i-th pass on
RECURSIVE TratarPlaylists(_, _)
TratarPlaylists(r, i) ==
  IF ~r.ok \/ i > Len(playlist_cols) THEN r
  ELSE TratarPlaylists(TratarPlaylist(r.df, playlist_cols[i]), i + 1)

FillMode(d, col, modes) ==
  IF modes = {} THEN Raise("KeyError")
  ELSE Ok(SetCol(d, col, fillna(Col(d, col), First(modes))))

\* the key column filled only when the table has it
TratamentoFinal_guarded(d) ==
  IF ~HasCol(d, "tom_musical") THEN Ok(d)
  ELSE FillMode(d, "tom_musical", mode(Col(d, "tom_musical")))

\* line 201: mode()[0] raises when the column has no present value
TratamentoFinal(d) ==
  IF ~HasCol(d, "tom_musical") THEN Raise("KeyError")
  ELSE FillMode(d, "tom_musical", mode(Col(d, "tom_musical")))

\* a statement runs only when the ones before it did not raise
StreamsAfter(r) == IF r.ok THEN TratarStreams(r.df) ELSE r

FinalAfter(r) == IF r.ok THEN TratamentoFinal(r.df) ELSE r

limpar_dados(d) ==
  FinalAfter(TratarPlaylists(TratarMetricas(StreamsAfter(drop(d, "cover_url")),
                                            1), 1))

(* --------------------------- calls and objects ------------------------- *)

\* a call of padronizar_colunas or limpar_dados: the table objects it can
\* reach, object 1 the table the caller passed, and the object its local
\* name df is bound to, which on entry is the caller's
Call(d) == [objs |-> << d >>, df |-> 1, err |-> NoError]

Local(c) == c.objs[c.df]

Running(c) == c.err = NoError

\* the result written into the object df is bound to
NewObject_inplace(c, d) == [c EXCEPT !.objs[c.df] = d]

\* df = df.copy() / df.rename(...) / df.drop(...): the method returns a new
\* table object and the local name df is bound to it
NewObject(c, d) ==
  [c EXCEPT !.objs = Append(c.objs, d), !.df = Len(c.objs) + 1]

\* df = df.copy()
copy(c) == NewObject(c, Local(c))

\* df = <method that returns a table>; an exception ends the call
Rebind(c, r) == IF r.ok THEN NewObject(c, r.df) ELSE [c EXCEPT !.err = r.err]

\* df[col] = ...: the column is set in the object df is bound to
Assign(c, r) ==
  IF r.ok THEN [c EXCEPT !.objs[c.df] = r.df] ELSE [c EXCEPT !.err = r.err]

\* line 79: df = df.rename(columns=rename_dict)
CallRename(c) == NewObject(c, padronizar_colunas(Local(c)))

\* lines 48-85
CallPadronizar(d) == CallRename(copy(Call(d)))

\* line 159
CallDrop(c) == Rebind(c, drop(Local(c), "cover_url"))

\* lines 161-174
CallStreams(c) == IF Running(c) THEN Assign(c, TratarStreams(Local(c))) ELSE c

\* lines 181-190
RECURSIVE CallMetricas(_, _)
CallMetricas(c, i) ==
  IF ~Running(c) \/ i > Len(metricas_musicais) THEN c
  ELSE CallMetricas(Assign(c, TratarMetrica(Local(c), metricas_musicais[i])),
                    i + 1)

\* lines 195-197
RECURSIVE CallPlaylists(_, _)
CallPlaylists(c, i) ==
  IF ~Running(c) \/ i > Len(playlist_cols) THEN c
  ELSE CallPlaylists(Assign(c, TratarPlaylist(Local(c), playlist_cols[i])),
                     i + 1)

\* line 201
CallFinal(c) == IF Running(c) THEN Assign(c, TratamentoFinal(Local(c))) ELSE c

\* lines 153-204
CallLimpar(d) ==
  CallFinal(CallPlaylists(CallMetricas(CallStreams(CallDrop(copy(Call(d)))),
                                       1), 1))

\* what the call hands back: the object df is bound to, or the exception
Result(c) == IF Running(c) THEN Ok(Local(c)) ELSE Raise(c.err)

\* the caller's table as the call leaves it
Caller(c) == c.objs[1]

(* ------------------------------ metadados ------------------------------ *)

RECURSIVE SumSeq(_)
SumSeq(xs) == IF Len(xs) = 0 THEN 0 ELSE xs[1] + SumSeq(Tail(xs))

Nulos(cells) == Cardinality({r \in 1..Len(cells) : isnull(cells[r])})

\* the summary printed by metadados: shape and missing values
metadados(d) ==
  [linhas |-> NumRows(d), colunas |-> Len(d),
   nulos |-> SumSeq([i \in 1..Len(d) |-> Nulos(d[i].cells)])]

NoMeta == [linhas |-> 0, colunas |-> 0, nulos |-> 0]

(* ------------------------------ the script ----------------------------- *)

\* passed is the table object handed to the latest call of padronizar_colunas
\* or limpar_dados, as that call left it; df is the script's name df, bound
\* to what the call returned

\* the file read: a well-formed file of n rows, or that file without one of
\* its columns, or with arbitrary fields in one column, or with a text that
\* is not a number in one row of one column
InputFile(f) ==
  \E n \in 0..MaxRows :
    \/ f = BaseFile(n)
    \/ \E i \in 1..Len(RawHeader) : f = WithoutColumn(BaseFile(n), RawHeader[i])
    \/ \E c \in FocusColumns : \E fs \in FieldColumns(c, n) :
         f = WithFields(BaseFile(n), c, fs)
    \/ \E c \in FocusColumns : \E r \in 1..n : \E t \in Words :
         f = WithField(BaseFile(n), c, r, t)

Init ==
  /\ InputFile(csv)
  /\ df = << >>
  /\ pc = "read_csv"
  /\ err = NoError
  /\ meta = NoMeta
  /\ passed = << >>

\* line 32
ReadCsv ==
  /\ pc = "read_csv"
  /\ df' = read_csv(csv)
  /\ pc' = "padronizar_colunas"
  /\ UNCHANGED <<csv, err, meta, passed>>

\* line 88
PadronizarColunas ==
  /\ pc = "padronizar_colunas"
  /\ df' = padronizar_colunas(df)
  /\ passed' = Caller(CallPadronizar(df))
  /\ pc' = "metadados"
  /\ UNCHANGED <<csv, err, meta>>

\* lines 137-138
Metadados ==
  /\ pc = "metadados"
  /\ meta' = metadados(df)
  /\ pc' = "limpar_dados"
  /\ UNCHANGED <<csv, df, err, passed>>

\* df = limpar_dados(df): an exception leaves df as it was and ends the script
Return(r) ==
  IF r.ok THEN df' = r.df /\ pc' = "verificar" /\ err' = err
  ELSE df' = df /\ pc' = "failed" /\ err' = r.err

\* line 212
LimparDados ==
  /\ pc = "limpar_dados"
  /\ Return(limpar_dados(df))
  /\ passed' = Caller(CallLimpar(df))
  /\ UNCHANGED <<csv, meta>>

\* lines 215-216
Verificar ==
  /\ pc = "verificar"
  /\ meta' = metadados(df)
  /\ pc' = "done"
  /\ UNCHANGED <<csv, df, err, passed>>

Next == ReadCsv \/ PadronizarColunas \/ Metadados \/ LimparDados \/ Verificar

Spec == Init /\ [][Next]_vars

(* ------------------------- vocabulary of the claims -------------------- *)

\* the table passed to limpar_dados at line 212
Renamed == padronizar_colunas(read_csv(csv))

\* limpar_dados returned / raised / was called
Cleaned == pc \in {"verificar", "done"}

Failed == pc = "failed"

LimparActed == Cleaned \/ Failed

FlaggedColumns ==
  {"streams"} \cup {metricas_musicais[i] : i \in 1..Len(metricas_musicais)}

PlaylistColumns == {playlist_cols[i] : i \in 1..Len(playlist_cols)}

\* every column name limpar_dados reads
ExpectedColumns ==
  {"cover_url", "tom_musical"} \cup FlaggedColumns \cup PlaylistColumns

Rows == 1..NumRows(df)

\* the numbers of a column, as a set of rows
Present(cells) == {r \in 1..Len(cells) : cells[r].k = "num"}

\* 8 times the lower and upper fence Q1 - 1.5*IQR, Q3 + 1.5*IQR of a column
\* that has a number
FenceOf(q1, q3) ==
  [lo |-> 2 * q1 - 3 * (q3 - q1), hi |-> 2 * q3 + 3 * (q3 - q1)]

Fence(cells) == FenceOf(quantile(cells, 1).x4, quantile(cells, 3).x4)

Outside(c, fence) ==
  c.k = "num" /\ (8 * c.v < fence.lo \/ 8 * c.v > fence.hi)

OnUpperFence(c, fence) ==
  c.k = "num" /\ 8 * c.v = fence.hi /\ fence.lo < fence.hi

\* the flags the claim prescribes for a column
FlagsByFence(cells, fence) ==
  [r \in 1..Len(cells) |-> Bool(Outside(cells[r], fence))]

HasFlagged(cells, flags, fence) ==
  \E r \in 1..Len(cells) : flags[r] = Bool(TRUE) /\ Outside(cells[r], fence)

HasOnFence(cells, flags, fence) ==
  \E r \in 1..Len(cells) :
    flags[r] = Bool(FALSE) /\ OnUpperFence(cells[r], fence)

(* C1: after limpar_dados, the outlier flag of streams and of each of the
   seven musical metrics is true for a row exactly when the row's value lies
   outside [Q1 - 1.5*IQR, Q3 + 1.5*IQR] of the column's non-missing values;
   a value on a bound and a missing value are flagged false. *)
C1_FlagIffOutsideFence ==
  Cleaned =>
    \A col \in FlaggedColumns :
      /\ HasCol(df, FlagName(col))
      /\ Col(df, FlagName(col)) = FlagsByFence(Col(df, col), Fence(Col(df, col)))

\* a cleaned table with a flagged row
C1_Witness ==
  /\ Cleaned
  /\ \E col \in FlaggedColumns :
       HasFlagged(Col(df, col), Col(df, FlagName(col)), Fence(Col(df, col)))

\* a cleaned table with a value exactly on the upper fence of a column whose
\* IQR is positive, and flagged false
C1_OnFence ==
  /\ Cleaned
  /\ \E col \in FlaggedColumns :
       HasOnFence(Col(df, col), Col(df, FlagName(col)), Fence(Col(df, col)))

(* C2: when limpar_dados returns, the table has as many rows as its input
   and in the same order: every column has one cell per input row, and the
   columns cleaning does not rewrite hold the same cells row by row; rows
   flagged as outliers and rows whose streams did not parse are kept. *)
SameRows(before, after) ==
  /\ \A i \in 1..Len(after) : Len(after[i].cells) = NumRows(before)
  /\ \A n \in Columns(before) \ ExpectedColumns :
       HasCol(after, n) /\ Col(after, n) = Col(before, n)
  /\ Col(after, "streams")
       = to_numeric(str_replace_column(Col(before, "streams")))

C2_RowsPreserved == Cleaned => SameRows(Renamed, df)

UnparsedKept(before, after) ==
  /\ Len(before) >= 2
  /\ \E r \in 1..Len(before) :
       /\ before[r].k = "str"
       /\ isnull(after[r])

\* a cleaned table of several rows, one of whose streams did not parse, with
\* the track names in the order of the file
C2_Witness ==
  /\ Cleaned
  /\ UnparsedKept(Col(Renamed, "streams"), Col(df, "streams"))
  /\ Col(df, "musica") = [r \in Rows |-> Num(r)]

\* the text without its commas is a non-empty run of digits
DigitsAndCommas(t) ==
  /\ \A i \in 1..Len(t) : t[i] \in Digit \cup {","}
  /\ \E i \in 1..Len(t) : t[i] \in Digit

\* the number read from the digits of a text, left to right
RECURSIVE DigitsValue(_, _)
DigitsValue(t, acc) ==
  IF Len(t) = 0 THEN acc
  ELSE IF t[1] \in Digit THEN DigitsValue(Tail(t), 10 * acc + DigitVal(t[1]))
  ELSE DigitsValue(Tail(t), acc)

(* C3: after limpar_dados every streams entry is a number or missing, none
   holds a comma: a text of digits and thousands-separator commas becomes
   the number left when the commas are deleted, and every other entry
   becomes missing. *)
CommasDeleted(before, after) ==
  /\ Len(after) = Len(before)
  /\ \A r \in 1..Len(before) :
       /\ after[r].k \in {"num", "nan"}
       /\ IF before[r].k = "str" /\ DigitsAndCommas(before[r].s)
          THEN after[r] = Num(DigitsValue(before[r].s, 0))
          ELSE isnull(after[r])

C3_StreamsNumericOrMissing ==
  Cleaned => CommasDeleted(Col(Renamed, "streams"), Col(df, "streams"))

\* a cleaned table where a comma-formatted entry became a number and a
\* non-numeric entry became missing
ParsedAndCoerced(before, after) ==
  /\ \E r \in 1..Len(before) :
       before[r] = Str(<< "1", ",", "0" >>) /\ after[r] = Num(10)
  /\ \E r \in 1..Len(before) :
       before[r] = Str(<< "b" >>) /\ isnull(after[r])

C3_Witness ==
  Cleaned /\ ParsedAndCoerced(Col(Renamed, "streams"), Col(df, "streams"))

NoneMissing(cells) == \A r \in 1..Len(cells) : cells[r].k = "num"

(* C4: a streams entry that cannot be parsed is turned into the missing
   marker and then imputed, so after limpar_dados every row of the streams
   column holds a number and no missing value is left in it. *)
C4_StreamsImputed == Cleaned => NoneMissing(Col(df, "streams"))

\* every expected column is in the table and the statements before line 201
\* do not raise on it
ReachesFinal(d) ==
  /\ ExpectedColumns \subseteq Columns(d)
  /\ IsObject(Col(d, "streams"))
  /\ \A i \in 1..Len(metricas_musicais) : CanFloat(Col(d, metricas_musicais[i]))

\* the filled column keeps what was present and puts a most frequent
\* present value where a value was missing
FilledByMode(before, after) ==
  /\ Len(after) = Len(before)
  /\ \A r \in 1..Len(before) :
       /\ ~isnull(after[r])
       /\ ~isnull(before[r]) => after[r] = before[r]
       /\ isnull(before[r]) =>
            /\ \E o \in 1..Len(before) : before[o] = after[r]
            /\ \A o \in 1..Len(before) :
                 ~isnull(before[o])
                   => Count(before, before[o]) <= Count(before, after[r])

(* C5: for every input table, after limpar_dados the key column
   (tom_musical) holds no missing value: what was present is unchanged and
   what was missing is the most frequent present value; also when every key
   entry is missing.  Stated for the tables of at least one row on which the
   statements before the key column's do not raise. *)
KeyFilled(before) ==
  (ReachesFinal(before) /\ NumRows(before) > 0) =>
    /\ Cleaned
    /\ FilledByMode(Col(before, "tom_musical"), Col(df, "tom_musical"))

C5_KeyNeverMissing == LimparActed => KeyFilled(Renamed)

\* a column converted to numbers holds a text that is not a number (for
\* streams: not a number once its commas are deleted)
Unconvertible(d) ==
  \/ \E r \in 1..NumRows(d) :
       /\ Col(d, "streams")[r].k = "str"
       /\ ~IsNumeric(str_replace(Col(d, "streams")[r].s))
  \/ \E col \in PlaylistColumns \cup (FlaggedColumns \ {"streams"}) :
       \E r \in 1..NumRows(d) :
         Col(d, col)[r].k = "str" /\ ~IsNumeric(Col(d, col)[r].s)

\* the table on which nothing but a numeric conversion can go wrong
OnlyCoercionAtStake(d) ==
  /\ ExpectedColumns \subseteq Columns(d)
  /\ IsObject(Col(d, "streams"))
  /\ mode(Col(d, "tom_musical")) # {}

(* C6: a numeric coercion failure never raises: in streams, the playlist
   columns and the seven percentage columns an entry that cannot be
   converted becomes missing and cleaning runs to completion. *)
CoercionCompletes(before) ==
  (OnlyCoercionAtStake(before) /\ Unconvertible(before)) => Cleaned

C6_CoercionNeverRaises == LimparActed => CoercionCompletes(Renamed)

\* the number an entry of a playlist column stands for, NaN when none
Numeric(c) ==
  IF c.k = "num" THEN c
  ELSE IF c.k = "str" /\ IsNumeric(c.s) THEN Num(DigitsValue(c.s, 0))
  ELSE NaN

NumericEntries(cells) == [r \in 1..Len(cells) |-> Numeric(cells[r])]

ImputedWith(numbers, after, m) ==
  /\ Len(after) = Len(numbers)
  /\ \A r \in 1..Len(numbers) :
       after[r] = IF isnull(numbers[r]) THEN m ELSE numbers[r]

ImputedByMedian(numbers, after) == ImputedWith(numbers, after, median(numbers))

(* C7 (as stated): after limpar_dados each playlist column holds only
   numbers and no missing value: a numeric entry keeps its value, a missing
   or non-numeric entry (a comma-formatted count too) is the median of the
   column's numeric entries. *)
C7_PlaylistsAllNumbers ==
  Cleaned =>
    \A col \in PlaylistColumns :
      /\ NoneMissing(Col(df, col))
      /\ ImputedByMedian(NumericEntries(Col(Renamed, col)), Col(df, col))

(* C7 (amended): after limpar_dados, in each playlist column a numeric entry
   keeps its value; when the column has at least one numeric entry, every
   missing or non-numeric entry (a comma-formatted count too) is the median
   of the numeric entries and no value is missing; when it has none, every
   entry is missing. *)
MedianOrAllMissing(numbers, after) ==
  /\ ImputedByMedian(numbers, after)
  /\ Present(numbers) # {} => NoneMissing(after)
  /\ Present(numbers) = {} => \A r \in 1..Len(after) : isnull(after[r])

PlaylistsOf(before, after) ==
  \A col \in PlaylistColumns :
    MedianOrAllMissing(NumericEntries(Col(before, col)), Col(after, col))

C7_PlaylistsMedianImputed == Cleaned => PlaylistsOf(Renamed, df)

CommaCountImputed(before, after) ==
  \E r \in 1..Len(before) : \E o \in 1..Len(before) :
    /\ before[r] = Str(<< "1", ",", "0" >>)
    /\ before[o].k = "str" /\ IsNumeric(before[o].s)
    /\ after[r] = after[o]
    /\ after[r].k = "num"

\* a cleaned table where a comma-formatted playlist count was replaced by
\* the median of the numeric entries
SomeCommaCountImputed(before, after) ==
  \E col \in PlaylistColumns :
    CommaCountImputed(Col(before, col), Col(after, col))

C7_Witness == Cleaned /\ SomeCommaCountImputed(Renamed, df)

Header(f) == {f[i].name : i \in 1..Len(f)}

FlagNames == {FlagName(col) : col \in FlaggedColumns}

NoDuplicates(d) == \A i \in 1..Len(d) : \A j \in 1..Len(d) :
                     d[i].name = d[j].name => i = j

OnlyCoverDropped(before, after) ==
  /\ "cover_url" \notin Columns(after)
  /\ Columns(before) \ {"cover_url"} \subseteq Columns(after)
  /\ Columns(after) \ Columns(before) = FlagNames
  /\ Len(after) = Len(before) - 1 + Cardinality(FlagNames)

(* C8: after limpar_dados the image-URL column (cover_url) is absent, every
   other input column is still there under its name, and the only columns
   added are the is_outlier_* flags. *)
C8_OnlyCoverUrlDropped == Cleaned => OnlyCoverDropped(Renamed, df)

\* a cleaned table whose input had the cover_url column
C8_Witness ==
  /\ Cleaned
  /\ "cover_url" \in Header(csv)
  /\ "cover_url" \notin Columns(df)
  /\ "musica" \in Columns(df)
  /\ "is_outlier_speechiness" \in Columns(df)

(* C9: when a column cleaning expects is absent from the table passed to
   limpar_dados, the call ends in an error, the script stops there: the
   caller's table is not replaced by a cleaned one and no later step runs. *)
StoppedOn(before) ==
  ~(ExpectedColumns \subseteq Columns(before)) =>
    /\ Failed
    /\ err # NoError
    /\ df = before
    /\ meta = metadados(before)
    /\ ~ENABLED Next

C9_MissingColumnTerminates == LimparActed => StoppedOn(Renamed)

\* the script stopped on a table that lacks the key column
C9_Witness ==
  /\ Failed
  /\ err = "KeyError"
  /\ "tom_musical" \notin Columns(df)
  /\ ExpectedColumns \ {"tom_musical"} \subseteq Columns(df)

\* renaming is done and cleaning is not
AfterRename == pc \in {"metadados", "limpar_dados"}

OnlyLookupRenamed(before, after) ==
  /\ Len(after) = Len(before)
  /\ \A i \in 1..Len(before) :
       /\ after[i].cells = before[i].cells
       /\ before[i].name \notin RenameKeys => after[i].name = before[i].name
       /\ before[i].name \in RenameKeys =>
            \E j \in 1..Len(rename_dict) :
              rename_dict[j] = << before[i].name, after[i].name >>

(* C10: the script renames before it cleans, and every column name
   limpar_dados reads exists in the table padronizar_colunas makes from the
   raw header; padronizar_colunas changes only the names of its lookup,
   leaves the other names (cover_url) and every cell as they were, and the
   names it yields are pairwise distinct. *)
C10_RenameFeedsCleaning ==
  AfterRename =>
    /\ OnlyLookupRenamed(read_csv(csv), df)
    /\ NoDuplicates(df)
    /\ Columns(df) \cap FlagNames = {}
    /\ Len(csv) = Len(RawHeader) => ExpectedColumns \subseteq Columns(df)

\* cleaning is about to run on the renamed table of a file with the raw
\* header and some rows
C10_Witness ==
  /\ pc = "limpar_dados"
  /\ Len(csv) = Len(RawHeader)
  /\ NumRows(df) > 0
  /\ {"tom_musical", "cover_url", "playlists_deezer"} \subseteq Columns(df)
  /\ "key" \notin Columns(df)

(* ------------------------------- C11 ----------------------------------- *)

\* the same columns in the same order, the same rows, the same cells
Untouched(before, after) ==
  /\ Len(after) = Len(before)
  /\ \A i \in 1..Len(before) :
       /\ after[i].name = before[i].name
       /\ Len(after[i].cells) = Len(before[i].cells)
       /\ \A r \in 1..Len(before[i].cells) :
            after[i].cells[r] = before[i].cells[r]

(* C11: padronizar_colunas and limpar_dados leave the table passed to them
   as it was: after padronizar_colunas the caller's table is still the table
   read from the file, and after limpar_dados, whether it returned or
   raised, the caller's table is still the renamed table, with the same
   columns, rows and cell values. *)
C11_InputsNotModified ==
  /\ AfterRename => Untouched(read_csv(csv), passed)
  /\ LimparActed => Untouched(Renamed, passed)

\* limpar_dados returned a table without cover_url and with streams parsed,
\* and the table it was given still has both as they were
C11_Witness ==
  /\ Cleaned
  /\ NumRows(passed) > 0
  /\ HasCol(passed, "cover_url")
  /\ ~HasCol(df, "cover_url")
  /\ \E r \in 1..NumRows(passed) :
       /\ Col(passed, "streams")[r].k = "str"
       /\ Col(df, "streams")[r].k = "num"

\* limpar_dados raised after it had set columns of its own table
C11_RaisedWitness ==
  /\ Failed
  /\ err = "ValueError"
  /\ NumRows(passed) > 0
  /\ \E r \in 1..NumRows(passed) : Col(passed, "streams")[r].k = "str"

\* the calls hand back what the script binds df to
CallsReturn ==
  /\ AfterRename => Local(CallPadronizar(read_csv(csv))) = df
  /\ Cleaned => Result(CallLimpar(passed)) = Ok(df)
  /\ Failed => Result(CallLimpar(passed)) = Raise(err)

====
